---- MODULE Spec2Model ----
(***************************************************************************)
(* The structural type algebra of tsparser/src/parser/types/typ.rs:        *)
(* identical, union_merge, simplify_union, intersect, assignable, extends. *)
(*                                                                         *)
(* A Type is a record tagged by k.  Every algebra operation is a pure      *)
(* function of the source; it is an operator here, translated match arm by *)
(* match arm in the order of the source.  A call that aborts (todo!(),     *)
(* expect) has the outcome PANIC / Panic, which every caller propagates,   *)
(* as unwinding does.                                                      *)
(***************************************************************************)
EXTENDS Integers, Sequences, FiniteSets, TLC

VARIABLES pc, op, self, other, types, res, handler

vars == <<pc, op, self, other, types, res, handler>>

(***************************************************************************)
(* Bounds of the model.                                                    *)
(***************************************************************************)
\* longest list handed to simplify_union and longest tuple handed to extends
MaxLen == 3
\* largest inferred slot index
MaxSlot == 1
\* the longest tuple compared element by element
MaxElems == 2
\* the most pieces (string literals, comments, other text) of a stripped text
MaxPieces == 3

Min(x, y) == IF x <= y THEN x ELSE y

(***************************************************************************)
(* Outcomes.  bool results are strings so that an abort can be told apart. *)
(***************************************************************************)
B_TRUE == "true"
B_FALSE == "false"
PANIC == "panic"
Bool(p) == IF p THEN B_TRUE ELSE B_FALSE

\* Option<bool> of assignable
SomeTrue == "Some(true)"
SomeFalse == "Some(false)"
NoneBool == "None"

\* Option<Type> of union_merge
None == [k |-> "None"]
Some(t) == [k |-> "Some", t |-> t]
\* a call returning Type that aborted
Panic == [k |-> "Panic"]

\* enum Extends
Yes(inf) == [x |-> "Yes", inf |-> inf]
No == [x |-> "No"]
Unknown == [x |-> "Unknown"]
ExtPanic == [x |-> "Panic"]

(***************************************************************************)
(* validation::Expr.  The predicate language is owned by the validation    *)
(* collaborator; `or` and `and` build a combined expression.               *)
(***************************************************************************)
Rule(n) == [e |-> "Rule", n |-> n]
Expr_or(a, b) == [e |-> "Or", l |-> a, r |-> b]
Expr_and(a, b) == [e |-> "And", l |-> a, r |-> b]

(***************************************************************************)
(* The Type model.                                                         *)
(***************************************************************************)
BasicKinds ==
    {"Any", "String", "Boolean", "Number", "Object", "BigInt", "Date",
     "Symbol", "Undefined", "Null", "Void", "Unknown", "Never"}

Basic(b) == [k |-> "Basic", b |-> b]
Array(t) == [k |-> "Array", elem |-> t]
Optional(t) == [k |-> "Optional", elem |-> t]
Tuple(ts) == [k |-> "Tuple", types |-> ts]
Union(ts) == [k |-> "Union", types |-> ts]
This == [k |-> "This"]
Validation(e) == [k |-> "Validation", expr |-> e]
Validated(t, e) == [k |-> "Validated", typ |-> t, expr |-> e]

\* enum Literal
LitString(s) == [lk |-> "String", s |-> s]
LitBoolean(b) == [lk |-> "Boolean", bv |-> b]
LitNumber(n) == [lk |-> "Number", n |-> n]
LitBigInt(s) == [lk |-> "BigInt", s |-> s]
Literal(l) == [k |-> "Literal", lit |-> l]

\* enum FieldName; a Symbol is named by the id of the object it refers to
FieldString(s) == [fk |-> "String", s |-> s]
FieldSymbol(id) == [fk |-> "Symbol", id |-> id]

\* struct InterfaceField (its source range carries no meaning for the algebra)
Field(name, optional, typ) == [name |-> name, optional |-> optional, typ |-> typ]

\* struct Interface; an Option is a sequence of length 0 or 1
Interface(fields, index, call) ==
    [k |-> "Interface", fields |-> fields, index |-> index, call |-> call]
IndexSig(key, value) == <<[key |-> key, value |-> value]>>
CallSig(params, returns) == <<[params |-> params, returns |-> returns]>>

ClassType(methods) == [k |-> "Class", methods |-> methods]

\* enum EnumValue, struct EnumMember, struct EnumType
EnumString(s) == [vk |-> "String", s |-> s]
EnumNumber(n) == [vk |-> "Number", n |-> n]
EnumMember(name, value) == [name |-> name, value |-> value]
EnumType(members) == [k |-> "Enum", members |-> members]

\* struct Named: the declaration is referred to by its stable id
Named(obj, type_arguments) ==
    [k |-> "Named", obj |-> obj, type_arguments |-> type_arguments]

\* enum Generic
Generic(g) == [k |-> "Generic", g |-> g]
TypeParam(idx, constraint) ==
    Generic([gk |-> "TypeParam", idx |-> idx, constraint |-> constraint])
Index(source, index) ==
    Generic([gk |-> "Index", source |-> source, index |-> index])
Mapped(in_type, value_type, optional) ==
    Generic([gk |-> "Mapped", in_type |-> in_type, value_type |-> value_type,
             optional |-> optional])
MappedKeyType == Generic([gk |-> "MappedKeyType"])
Keyof(t) == Generic([gk |-> "Keyof", t |-> t])
Conditional(c, e, t, f) ==
    Generic([gk |-> "Conditional", check_type |-> c, extends_type |-> e,
             true_type |-> t, false_type |-> f])
Intersection(x, y) == Generic([gk |-> "Intersection", x |-> x, y |-> y])
Inferred(idx) == Generic([gk |-> "Inferred", idx |-> idx])

\* enum Custom / struct WireSpec
WireSpec(location, underlying, name_override) ==
    [k |-> "Custom", location |-> location, underlying |-> underlying,
     name_override |-> name_override]

IsBasic(t, b) == t.k = "Basic" /\ t.b = b

(***************************************************************************)
(* The resolution context: the declarations of one compilation unit and    *)
(* the expansion of a Named type to its underlying type.  The declarations *)
(* below take no type parameters, so expansion substitutes nothing.        *)
(*   1: type S = string     2: interface P { a: number }                   *)
(*   3: class K {}          4: type U = string | number                    *)
(***************************************************************************)
DeclIds == {1, 2, 3, 4}

DeclType(id) ==
    CASE id = 1 -> Basic("String")
      [] id = 2 -> Interface(<<Field(FieldString("a"), FALSE, Basic("Number"))>>, <<>>, <<>>)
      [] id = 3 -> ClassType(<<>>)
      [] id = 4 -> Union(<<Basic("String"), Basic("Number")>>)

underlying_named(named) == DeclType(named.obj)

(***************************************************************************)
(* Identity.                                                               *)
(***************************************************************************)
RECURSIVE identical(_, _)
RECURSIVE zip_all_identical(_, _, _)
RECURSIVE Interface_fields_identical(_, _, _)

\* impl PartialEq for Literal
Literal_eq(a, b) ==
    CASE a.lk = "String" /\ b.lk = "String" -> a.s = b.s
      [] a.lk = "Boolean" /\ b.lk = "Boolean" -> a.bv = b.bv
      [] a.lk = "Number" /\ b.lk = "Number" -> a.n = b.n
      [] a.lk = "BigInt" /\ b.lk = "BigInt" -> a.s = b.s
      [] OTHER -> FALSE

\* Literal::basic
Literal_basic(l) == l.lk

\* impl Hash for Literal: what hashing the literal writes to the hasher, a
\* str as its bytes and a bool as one byte.  The Number arm begins with
\* `self.hash(state)`, the call it is in: the recursion has no end and the
\* stack overflow ends the process, before integer_decode is reached.
Literal_hash(l) ==
    CASE l.lk = "String" -> <<[str |-> l.s]>>
      [] l.lk = "Boolean" -> <<[u8 |-> IF l.bv THEN 1 ELSE 0]>>
      [] l.lk = "Number" -> PANIC
      [] l.lk = "BigInt" -> <<[str |-> l.s]>>

\* a.iter().zip(b).all(|(a, b)| a.identical(b)) from position i on:
\* the pairs beyond the shorter sequence are never looked at
zip_all_identical(as, bs, i) ==
    IF i > Min(Len(as), Len(bs)) THEN B_TRUE
    ELSE LET r == identical(as[i], bs[i])
         IN IF r = B_TRUE THEN zip_all_identical(as, bs, i + 1) ELSE r

\* ClassType::identical: todo!()
ClassType_identical(a, b) == PANIC

\* EnumType::identical: equal length and derived equality of the member vectors
EnumType_identical(a, b) ==
    IF Len(a.members) # Len(b.members) THEN B_FALSE
    ELSE Bool(a.members = b.members)

\* Named::identical
Named_identical(a, b) ==
    IF a.obj # b.obj \/ Len(a.type_arguments) # Len(b.type_arguments) THEN B_FALSE
    ELSE zip_all_identical(a.type_arguments, b.type_arguments, 1)

\* TypeParam::identical
TypeParam_identical(a, b) ==
    IF a.idx # b.idx THEN B_FALSE
    ELSE CASE Len(a.constraint) = 1 /\ Len(b.constraint) = 1 ->
                identical(a.constraint[1], b.constraint[1])
           [] Len(a.constraint) = 0 /\ Len(b.constraint) = 0 -> B_TRUE
           [] OTHER -> B_FALSE

\* Mapped::identical
Mapped_identical(a, b) ==
    LET r == identical(a.in_type, b.in_type)
    IN IF r = B_TRUE THEN identical(a.value_type, b.value_type) ELSE r

\* Generic::identical
Generic_identical(a, b) ==
    CASE a.gk = "TypeParam" /\ b.gk = "TypeParam" -> TypeParam_identical(a, b)
      [] a.gk = "Mapped" /\ b.gk = "Mapped" -> Mapped_identical(a, b)
      [] OTHER -> B_FALSE

\* WireSpec::identical (Custom::identical has the one variant)
WireSpec_identical(a, b) ==
    IF a.location = b.location /\ a.name_override = b.name_override
    THEN identical(a.underlying, b.underlying)
    ELSE B_FALSE

\* the HashMap collected from (name, field) pairs: a later field of the same
\* name replaces an earlier one
by_name_get(fields, name) ==
    LET hits == {i \in 1..Len(fields) : fields[i].name = name}
    IN IF hits = {} THEN <<>>
       ELSE <<fields[CHOOSE i \in hits : \A j \in hits : j <= i]>>

\* InterfaceField_identical without the comparison of the optional flags
InterfaceField_identical_any_optional(a, b) ==
    IF a.name # b.name THEN B_FALSE ELSE identical(a.typ, b.typ)

\* InterfaceField::identical
InterfaceField_identical(a, b) ==
    IF a.name # b.name THEN B_FALSE
    ELSE LET r == identical(a.typ, b.typ)
         IN IF r = B_TRUE THEN Bool(a.optional = b.optional) ELSE r

\* the loop of Interface::identical over other's fields from position i on
Interface_fields_identical(this, that, i) ==
    IF i > Len(that.fields) THEN B_TRUE
    ELSE LET got == by_name_get(this.fields, that.fields[i].name)
         IN IF Len(got) = 0 THEN B_FALSE
            ELSE LET r == InterfaceField_identical(got[1], that.fields[i])
                 IN IF r = B_TRUE
                    THEN Interface_fields_identical(this, that, i + 1)
                    ELSE r

\* Interface::identical
Interface_identical(a, b) ==
    IF Len(a.fields) # Len(b.fields) THEN B_FALSE
    ELSE IF (Len(a.index) = 1) # (Len(b.index) = 1) THEN B_FALSE
    ELSE LET f == Interface_fields_identical(a, b, 1)
         IN IF f # B_TRUE THEN f
            ELSE IF Len(a.index) = 1 /\ Len(b.index) = 1
                 THEN LET kk == identical(a.index[1].key, b.index[1].key)
                      IN IF kk = PANIC THEN PANIC
                         ELSE IF kk = B_FALSE THEN B_FALSE
                         ELSE LET vv == identical(a.index[1].value, b.index[1].value)
                              IN vv
                 ELSE B_TRUE

\* Type::identical
identical(a, b) ==
    CASE a.k = "Basic" /\ b.k = "Basic" -> Bool(a.b = b.b)
      [] a.k = "Array" /\ b.k = "Array" -> identical(a.elem, b.elem)
      [] a.k = "Interface" /\ b.k = "Interface" -> Interface_identical(a, b)
      [] a.k = "Union" /\ b.k = "Union" -> zip_all_identical(a.types, b.types, 1)
      [] a.k = "Tuple" /\ b.k = "Tuple" -> zip_all_identical(a.types, b.types, 1)
      [] a.k = "Literal" /\ b.k = "Literal" -> Bool(Literal_eq(a.lit, b.lit))
      [] a.k = "Class" /\ b.k = "Class" -> ClassType_identical(a, b)
      [] a.k = "Named" /\ b.k = "Named" -> Named_identical(a, b)
      [] a.k = "Optional" /\ b.k = "Optional" -> identical(a.elem, b.elem)
      [] a.k = "This" /\ b.k = "This" -> B_TRUE
      [] a.k = "Generic" /\ b.k = "Generic" -> Generic_identical(a.g, b.g)
      [] a.k = "Enum" /\ b.k = "Enum" -> EnumType_identical(a, b)
      [] a.k = "Custom" /\ b.k = "Custom" -> WireSpec_identical(a, b)
      [] OTHER -> B_FALSE

(***************************************************************************)
(* Union algebra.                                                          *)
(***************************************************************************)
\* Type::union_merge
union_merge(this, that) ==
    CASE IsBasic(this, "Any") \/ IsBasic(that, "Any") -> Some(Basic("Any"))
      [] this.k = "Basic" /\ that.k = "Literal" /\ this.b = Literal_basic(that.lit) ->
            Some(Basic(this.b))
      [] this.k = "Literal" /\ that.k = "Basic" /\ that.b = Literal_basic(this.lit) ->
            Some(Basic(that.b))
      [] this.k = "Validation" /\ that.k = "Validation" ->
            Some(Validation(Expr_or(this.expr, that.expr)))
      [] this.k = "Validated" /\ that.k = "Validation" ->
            Some(Validated(this.typ, Expr_or(this.expr, that.expr)))
      [] this.k = "Validation" /\ that.k = "Validated" ->
            Some(Validated(that.typ, Expr_or(that.expr, this.expr)))
      [] OTHER ->
            LET r == identical(this, that)
            IN IF r = PANIC THEN Panic
               ELSE IF r = B_TRUE THEN Some(this)
               ELSE None

\* Type::simplify_or_union
simplify_or_union(this, that) ==
    LET m == union_merge(this, that)
    IN IF m = Panic THEN Panic
       ELSE IF m.k = "Some" THEN m.t
       ELSE Union(<<this, that>>)

RECURSIVE unify_into(_, _, _)
\* the inner loop of simplify_union over results from position j on: the
\* first entry that merges with typ is replaced by the merge.  The outcome is
\* the new results, <<>> wrapped in found/not found, or an abort.
unify_into(results, typ, j) ==
    IF j > Len(results) THEN [found |-> FALSE, panic |-> FALSE, results |-> results]
    ELSE LET m == union_merge(results[j], typ)
         IN IF m = Panic THEN [found |-> FALSE, panic |-> TRUE, results |-> results]
            ELSE IF m.k = "Some"
                 THEN [found |-> TRUE, panic |-> FALSE,
                       results |-> [results EXCEPT ![j] = m.t]]
            ELSE unify_into(results, typ, j + 1)

\* ignored_in_union that ignores nothing
ignored_in_union_nothing(typ) == FALSE

\* `if matches!(typ, Type::Basic(Basic::Never)) { continue; }`
ignored_in_union(typ) == IsBasic(typ, "Never")

\* the match on results.len() that ends simplify_union
union_of_results(results) ==
    CASE Len(results) = 0 -> Basic("Never")
      [] Len(results) = 1 -> results[1]
      [] OTHER -> Union(results)

RECURSIVE simplify_union_from(_, _, _)
\* the outer loop of simplify_union over types from position i on
simplify_union_from(ts, i, results) ==
    IF i > Len(ts) THEN union_of_results(results)
    ELSE IF ignored_in_union(ts[i]) THEN simplify_union_from(ts, i + 1, results)
    ELSE LET u == unify_into(results, ts[i], 1)
         IN IF u.panic THEN Panic
            ELSE IF u.found THEN simplify_union_from(ts, i + 1, u.results)
            ELSE simplify_union_from(ts, i + 1, Append(results, ts[i]))

\* simplify_union
simplify_union(ts) == simplify_union_from(ts, 1, <<>>)

RECURSIVE iter_unions(_)
RECURSIVE flat_map_iter_unions(_, _)
\* union.types.iter().flat_map(|t| t.iter_unions()) from position i on
flat_map_iter_unions(ts, i) ==
    IF i > Len(ts) THEN <<>>
    ELSE iter_unions(ts[i]) \o flat_map_iter_unions(ts, i + 1)

\* Type::iter_unions / Type::into_iter_unions, as the sequence they yield
iter_unions(t) ==
    CASE t.k = "Union" -> flat_map_iter_unions(t.types, 1)
      [] t.k = "Optional" -> iter_unions(t.elem) \o <<Basic("Undefined")>>
      [] t.k = "Validated" -> iter_unions(t.typ)
      [] OTHER -> <<t>>

(***************************************************************************)
(* Intersection algebra.  A list built by a loop is [panic, ts]: the loop  *)
(* aborts as soon as one of its calls does.                                *)
(***************************************************************************)
Built(ts) == [panic |-> FALSE, ts |-> ts]
Aborted == [panic |-> TRUE, ts |-> <<>>]

RECURSIVE intersect(_, _)
RECURSIVE intersect_members(_, _, _)
RECURSIVE intersect_product(_, _, _, _)
RECURSIVE intersect_zip(_, _, _)
RECURSIVE intersect_x_fields(_, _, _)

\* the closure `literal` of intersect
literal_in_basic(lit, b) ==
    \/ lit.lk = "String" /\ b \in {"String", "Any", "Unknown"}
    \/ lit.lk = "Boolean" /\ b \in {"Boolean", "Any", "Unknown"}
    \/ lit.lk = "Number" /\ b \in {"Number", "Any", "Unknown"}
    \/ lit.lk = "BigInt" /\ b \in {"BigInt", "Any", "Unknown"}

\* the filter_map of union_with over the members ms from position i on
intersect_members(ms, b, i) ==
    IF i > Len(ms) THEN Built(<<>>)
    ELSE LET r == intersect(ms[i], b)
         IN IF r = Panic THEN Aborted
            ELSE LET rest == intersect_members(ms, b, i + 1)
                 IN IF rest.panic THEN Aborted
                    ELSE IF IsBasic(r, "Never") THEN rest
                    ELSE Built(<<r>> \o rest.ts)

\* the closure `union_with` of intersect
union_with(a, b) ==
    LET result == intersect_members(iter_unions(a), b, 1)
    IN IF result.panic THEN Panic ELSE simplify_union(result.ts)

\* the nested loops of the (Union, Union) arm from positions (i, j) on
intersect_product(as, bs, i, j) ==
    IF i > Len(as) THEN Built(<<>>)
    ELSE IF j > Len(bs) THEN intersect_product(as, bs, i + 1, 1)
    ELSE LET r == intersect(as[i], bs[j])
         IN IF r = Panic THEN Aborted
            ELSE LET rest == intersect_product(as, bs, i, j + 1)
                 IN IF rest.panic THEN Aborted
                    ELSE IF IsBasic(r, "Never") THEN rest
                    ELSE Built(<<r>> \o rest.ts)

\* the loop of the (Tuple, Tuple) arm over x.types.iter().zip(y.types.iter())
intersect_zip(xs, ys, i) ==
    IF i > Min(Len(xs), Len(ys)) THEN Built(<<>>)
    ELSE LET r == intersect(xs[i], ys[i])
         IN IF r = Panic THEN Aborted
            ELSE LET rest == intersect_zip(xs, ys, i + 1)
                 IN IF rest.panic THEN Aborted ELSE Built(<<r>> \o rest.ts)

RECURSIVE IndexMap_collect(_, _, _)
\* y.fields.into_iter().map(|f| (f.name.clone(), Some(f))).collect::<IndexMap>():
\* entries keep the order of first insertion, a repeated key replaces the value
IndexMap_collect(fields, i, map) ==
    IF i > Len(fields) THEN map
    ELSE LET at == {j \in 1..Len(map) : map[j].name = fields[i].name}
             entry == [name |-> fields[i].name, val |-> <<fields[i]>>]
         IN IF at = {}
            THEN IndexMap_collect(fields, i + 1, Append(map, entry))
            ELSE IndexMap_collect(fields, i + 1,
                                  [map EXCEPT ![CHOOSE j \in at : TRUE] = entry])

IndexMap_position(map, name) ==
    LET at == {j \in 1..Len(map) : map[j].name = name}
    IN IF at = {} THEN 0 ELSE CHOOSE j \in at : TRUE

\* how the optional flags of a field present on both sides combine
merged_optional(x_optional, y_optional) == x_optional /\ y_optional

\* the loop over x.fields from position i on; y_fields is the IndexMap.
\* Outcome [panic, ts, y_fields].
intersect_x_fields(xfields, i, y_fields) ==
    IF i > Len(xfields) THEN [panic |-> FALSE, ts |-> <<>>, y_fields |-> y_fields]
    ELSE LET field == xfields[i]
             at == IndexMap_position(y_fields, field.name)
         IN IF at = 0
            THEN LET rest == intersect_x_fields(xfields, i + 1, y_fields)
                 IN IF rest.panic THEN rest
                    ELSE [rest EXCEPT !.ts = <<field>> \o rest.ts]
            ELSE IF Len(y_fields[at].val) = 0
                 \* expect("field name should not appear twice")
                 THEN [panic |-> TRUE, ts |-> <<>>, y_fields |-> y_fields]
            ELSE LET that == y_fields[at].val[1]
                     typ == intersect(field.typ, that.typ)
                 IN IF typ = Panic
                    THEN [panic |-> TRUE, ts |-> <<>>, y_fields |-> y_fields]
                    ELSE LET merged == [field EXCEPT
                                          !.typ = typ,
                                          !.optional = merged_optional(field.optional, that.optional)]
                             rest == intersect_x_fields(xfields, i + 1,
                                        [y_fields EXCEPT ![at].val = <<>>])
                         IN IF rest.panic THEN rest
                            ELSE [rest EXCEPT !.ts = <<merged>> \o rest.ts]

RECURSIVE remaining_y_fields(_, _)
\* `for (_, other) in y_fields { if let Some(other) = other { result.push(other) } }`
remaining_y_fields(y_fields, i) ==
    IF i > Len(y_fields) THEN <<>>
    ELSE y_fields[i].val \o remaining_y_fields(y_fields, i + 1)

\* the block computing `fields` in the (Interface, Interface) arm
intersect_fields(x, y) ==
    LET r == intersect_x_fields(x.fields, 1, IndexMap_collect(y.fields, 1, <<>>))
    IN IF r.panic THEN Aborted
       ELSE Built(r.ts \o remaining_y_fields(r.y_fields, 1))

\* the block computing `index` in the (Interface, Interface) arm
intersect_index(fields, x, y) ==
    IF Len(fields) = 0 THEN Built(<<>>)
    ELSE IF Len(x.index) = 1 /\ Len(y.index) = 1
         THEN LET key == intersect(x.index[1].key, y.index[1].key)
              IN IF key = Panic THEN Aborted
                 ELSE LET value == intersect(x.index[1].value, y.index[1].value)
                      IN IF value = Panic THEN Aborted ELSE Built(IndexSig(key, value))
    ELSE IF Len(x.index) = 1 THEN Built(x.index)
    ELSE IF Len(y.index) = 1 THEN Built(y.index)
    ELSE Built(<<>>)

\* whether the (Interface, Interface) arm reports to the diagnostic handler
intersect_reports(x, y) == Len(x.call) = 1 \/ Len(y.call) = 1

\* the (Interface, Interface) arm
intersect_interfaces(x, y) ==
    LET fields == intersect_fields(x, y)
    IN IF fields.panic THEN Panic
       ELSE LET index == intersect_index(fields.ts, x, y)
            IN IF index.panic THEN Panic
               ELSE Interface(fields.ts, index.ts, <<>>)

\* intersect_absorbing without its `T & never == never` arm
intersect_absorbing_no_never(a, b) ==
    IF IsBasic(a, "Unknown") THEN <<b>>
    ELSE IF IsBasic(b, "Unknown") THEN <<a>>
    ELSE IF IsBasic(a, "Any") \/ IsBasic(b, "Any") THEN <<Basic("Any")>>
    ELSE <<>>

\* the absorbing arms that open the match of intersect; <<>> when none applies
intersect_absorbing(a, b) ==
    IF IsBasic(a, "Unknown") THEN <<b>>
    ELSE IF IsBasic(b, "Unknown") THEN <<a>>
    ELSE IF IsBasic(a, "Any") \/ IsBasic(b, "Any") THEN <<Basic("Any")>>
    ELSE IF IsBasic(a, "Never") \/ IsBasic(b, "Never") THEN <<Basic("Never")>>
    ELSE <<>>

\* intersect
intersect(a, b) ==
    IF Len(intersect_absorbing(a, b)) = 1 THEN intersect_absorbing(a, b)[1]
    ELSE IF a.k = "Basic" /\ b.k = "Basic"
         THEN IF a.b = b.b THEN Basic(a.b) ELSE Basic("Never")
    ELSE IF a.k = "Union" /\ b.k = "Union"
         THEN LET ts == intersect_product(a.types, b.types, 1, 1)
              IN IF ts.panic THEN Panic ELSE simplify_union(ts.ts)
    ELSE IF a.k = "Union" THEN union_with(a, b)
    ELSE IF b.k = "Union" THEN union_with(b, a)
    ELSE IF a.k = "Literal" /\ b.k = "Literal" /\ Literal_eq(a.lit, b.lit) THEN a
    ELSE IF a.k = "Literal" /\ b.k = "Basic"
         THEN IF literal_in_basic(a.lit, b.b) THEN a ELSE Basic("Never")
    ELSE IF a.k = "Basic" /\ b.k = "Literal"
         THEN IF literal_in_basic(b.lit, a.b) THEN b ELSE Basic("Never")
    ELSE IF a.k = "Array" /\ b.k = "Array"
         THEN LET e == intersect(a.elem, b.elem)
              IN IF e = Panic THEN Panic ELSE Array(e)
    ELSE IF (a.k = "Array" /\ b.k = "Tuple") \/ (a.k = "Tuple" /\ b.k = "Array")
         THEN LET x == IF a.k = "Array" THEN a ELSE b
                  y == IF a.k = "Array" THEN b ELSE a
              IN IF Len(y.types) = 0 THEN Array(Basic("Never"))
                 ELSE LET e == intersect(x.elem, y.types[1])
                      IN IF e = Panic THEN Panic ELSE Array(e)
    ELSE IF a.k = "Tuple" /\ b.k = "Tuple"
         THEN LET ts == intersect_zip(a.types, b.types, 1)
              IN IF ts.panic THEN Panic ELSE Tuple(ts.ts)
    ELSE IF a.k = "Optional" /\ b.k = "Optional"
         THEN LET e == intersect(a.elem, b.elem)
              IN IF e = Panic THEN Panic ELSE Optional(e)
    ELSE IF a.k = "Optional" THEN union_with(a.elem, b)
    ELSE IF b.k = "Optional" THEN union_with(b.elem, a)
    ELSE IF a.k = "This" /\ b.k = "This" THEN This
    ELSE IF a.k = "Validated" /\ b.k = "Validation"
         THEN Validated(a.typ, Expr_and(a.expr, b.expr))
    ELSE IF a.k = "Validation" /\ b.k = "Validated"
         THEN Validated(b.typ, Expr_and(a.expr, b.expr))
    ELSE IF a.k = "Validation" /\ b.k = "Validation"
         THEN Validation(Expr_and(a.expr, b.expr))
    ELSE IF b.k = "Validation" THEN Validated(a, b.expr)
    ELSE IF a.k = "Validation" THEN Validated(b, a.expr)
    ELSE IF a.k = "Generic" \/ b.k = "Generic" THEN Intersection(a, b)
    ELSE IF a.k = "Class" /\ b.k = "Class" THEN Intersection(a, b)
    ELSE IF a.k = "Named" THEN intersect(underlying_named(a), b)
    ELSE IF b.k = "Named" THEN intersect(a, underlying_named(b))
    ELSE IF a.k = "Interface" /\ b.k = "Interface" THEN intersect_interfaces(a, b)
    ELSE IF a.k = "Interface" \/ b.k = "Interface" THEN Intersection(a, b)
    ELSE Basic("Never")

(***************************************************************************)
(* The diagnostics of intersect.  HANDLER is the diagnostic sink of the    *)
(* compilation; intersect_errs counts the handler.err calls of a call of    *)
(* intersect that returns, following the arms of intersect.                *)
(***************************************************************************)
CallSignatureError == "intersection of call signature types not yet supported"

RECURSIVE intersect_errs(_, _)
RECURSIVE errs_of_pairs(_, _)
RECURSIVE shared_fields(_, _, _)

\* the handler.err calls of the calls intersect(p[1], p[2]) for the pairs p
\* from position i on
errs_of_pairs(pairs, i) ==
    IF i > Len(pairs) THEN 0
    ELSE intersect_errs(pairs[i][1], pairs[i][2]) + errs_of_pairs(pairs, i + 1)

\* the pairs of field types intersected by the loop over x.fields
shared_fields(xfields, i, y_fields) ==
    IF i > Len(xfields) THEN <<>>
    ELSE LET at == IndexMap_position(y_fields, xfields[i].name)
         IN IF at = 0 THEN shared_fields(xfields, i + 1, y_fields)
            ELSE <<<<xfields[i].typ, y_fields[at].val[1].typ>>>>
                 \o shared_fields(xfields, i + 1, y_fields)

\* each member of the flattened a against b, as union_with intersects them
union_with_pairs(a, b) ==
    [n \in 1..Len(iter_unions(a)) |-> <<iter_unions(a)[n], b>>]

intersect_errs(a, b) ==
    IF Len(intersect_absorbing(a, b)) = 1 THEN 0
    ELSE IF a.k = "Basic" /\ b.k = "Basic" THEN 0
    ELSE IF a.k = "Union" /\ b.k = "Union"
         THEN LET n == Len(b.types)
              IN errs_of_pairs([k \in 1..(Len(a.types) * n) |->
                                  <<a.types[((k - 1) \div n) + 1],
                                    b.types[((k - 1) % n) + 1]>>], 1)
    ELSE IF a.k = "Union" THEN errs_of_pairs(union_with_pairs(a, b), 1)
    ELSE IF b.k = "Union" THEN errs_of_pairs(union_with_pairs(b, a), 1)
    ELSE IF a.k = "Literal" /\ b.k \in {"Literal", "Basic"} THEN 0
    ELSE IF a.k = "Basic" /\ b.k = "Literal" THEN 0
    ELSE IF a.k = "Array" /\ b.k = "Array" THEN intersect_errs(a.elem, b.elem)
    ELSE IF (a.k = "Array" /\ b.k = "Tuple") \/ (a.k = "Tuple" /\ b.k = "Array")
         THEN LET x == IF a.k = "Array" THEN a ELSE b
                  y == IF a.k = "Array" THEN b ELSE a
              IN IF Len(y.types) = 0 THEN 0 ELSE intersect_errs(x.elem, y.types[1])
    ELSE IF a.k = "Tuple" /\ b.k = "Tuple"
         THEN errs_of_pairs([k \in 1..Min(Len(a.types), Len(b.types)) |->
                               <<a.types[k], b.types[k]>>], 1)
    ELSE IF a.k = "Optional" /\ b.k = "Optional" THEN intersect_errs(a.elem, b.elem)
    ELSE IF a.k = "Optional" THEN errs_of_pairs(union_with_pairs(a.elem, b), 1)
    ELSE IF b.k = "Optional" THEN errs_of_pairs(union_with_pairs(b.elem, a), 1)
    ELSE IF a.k \in {"This", "Validation", "Generic"} THEN 0
    ELSE IF b.k \in {"Validation", "Generic"} THEN 0
    ELSE IF a.k = "Validated" /\ b.k = "Validation" THEN 0
    ELSE IF a.k = "Class" /\ b.k = "Class" THEN 0
    ELSE IF a.k = "Named" THEN intersect_errs(underlying_named(a), b)
    ELSE IF b.k = "Named" THEN intersect_errs(a, underlying_named(b))
    ELSE IF a.k = "Interface" /\ b.k = "Interface"
         THEN errs_of_pairs(shared_fields(a.fields, 1, IndexMap_collect(b.fields, 1, <<>>)), 1)
              \* `fields` holds every field of x and every other field of y
              + (IF (a.fields # <<>> \/ b.fields # <<>>)
                    /\ Len(a.index) = 1 /\ Len(b.index) = 1
                 THEN intersect_errs(a.index[1].key, b.index[1].key)
                      + intersect_errs(a.index[1].value, b.index[1].value)
                 ELSE 0)
              + (IF intersect_reports(a, b) THEN 1 ELSE 0)
    ELSE 0

(***************************************************************************)
(* Assignability.  The outcome is SomeTrue, SomeFalse, NoneBool or PANIC.  *)
(***************************************************************************)
RECURSIVE assignable(_, _)
RECURSIVE assignable_tuple_tuple(_, _, _, _)
RECURSIVE assignable_tuple_array(_, _, _)
RECURSIVE assignable_enum_enum(_, _, _)
RECURSIVE assignable_enum_interface(_, _, _, _)
RECURSIVE assignable_interface_interface(_, _, _, _)
RECURSIVE assignable_union_inner(_, _, _, _)
RECURSIVE assignable_union_outer(_, _, _)

\* the matches!(..) of the (Literal, Basic) arm of assignable and extends
literal_assignable_basic(lit, b) ==
    \/ b = "Any"
    \/ lit.lk = "String" /\ b = "String"
    \/ lit.lk = "Boolean" /\ b = "Boolean"
    \/ lit.lk = "Number" /\ b = "Number"
    \/ lit.lk = "BigInt" /\ b = "BigInt"

\* `n as f64`: exact for every |n| <= 2^53, which covers the model's integers
i64_as_f64(n) == n

\* EnumValue::to_literal
to_literal(v) ==
    IF v.vk = "String" THEN LitString(v.s) ELSE LitNumber(i64_as_f64(v.n))

\* EnumValue::to_type
to_type(v) == Literal(to_literal(v))

\* HashMap<&str, &EnumValue> built from the members: a later member of the
\* same name replaces an earlier one
enum_fields_get(members, name) ==
    LET hits == {i \in 1..Len(members) : members[i].name = name}
    IN IF hits = {} THEN <<>>
       ELSE <<members[CHOOSE i \in hits : \A j \in hits : j <= i].value>>

\* what the loops do when the requested field is missing in self
interface_field_missing == SomeFalse

\* found_none_or_true that forgets the indeterminate comparisons
found_none_forgotten(found_none) == SomeTrue

\* what a loop that met no Some(false) answers at its end
found_none_or_true(found_none) == IF found_none THEN NoneBool ELSE SomeTrue

\* (Tuple, Tuple) loop from position i on
assignable_tuple_tuple(xs, ys, i, found_none) ==
    IF i > Min(Len(xs), Len(ys)) THEN found_none_or_true(found_none)
    ELSE LET r == assignable(xs[i], ys[i])
         IN IF r = PANIC THEN PANIC
            ELSE IF r = SomeFalse THEN SomeFalse
            ELSE assignable_tuple_tuple(xs, ys, i + 1, found_none \/ r = NoneBool)

\* (Tuple, Array) loop from position i on
assignable_tuple_array(xs, elem, i) ==
    IF i > Len(xs) THEN SomeTrue
    ELSE LET r == assignable(xs[i], elem)
         IN IF r = SomeTrue THEN assignable_tuple_array(xs, elem, i + 1) ELSE r

\* (Enum, Enum) loop over other's members from position i on
assignable_enum_enum(members, others, i) ==
    IF i > Len(others) THEN SomeTrue
    ELSE LET got == enum_fields_get(members, others[i].name)
         IN IF Len(got) = 1 /\ got[1] = others[i].value
            THEN assignable_enum_enum(members, others, i + 1)
            ELSE SomeFalse

\* (Enum, Interface) loop over other's fields from position i on
assignable_enum_interface(members, fields, i, found_none) ==
    IF i > Len(fields) THEN found_none_or_true(found_none)
    ELSE LET field == fields[i]
             got == IF field.name.fk = "String"
                    THEN enum_fields_get(members, field.name.s) ELSE <<>>
         IN IF Len(got) = 0
            THEN assignable_enum_interface(members, fields, i + 1, found_none)
            ELSE LET r == assignable(to_type(got[1]), field.typ)
                 IN IF r = PANIC THEN PANIC
                    ELSE IF r = SomeFalse THEN SomeFalse
                    ELSE assignable_enum_interface(members, fields, i + 1,
                                                   found_none \/ r = NoneBool)

\* (Interface, Interface) loop over other's fields from position i on
assignable_interface_interface(this_fields, fields, i, found_none) ==
    IF i > Len(fields) THEN found_none_or_true(found_none)
    ELSE LET got == by_name_get(this_fields, fields[i].name)
         IN IF Len(got) = 0 THEN interface_field_missing
            ELSE LET r == assignable(got[1].typ, fields[i].typ)
                 IN IF r = PANIC THEN PANIC
                    ELSE IF r = SomeFalse THEN SomeFalse
                    ELSE assignable_interface_interface(this_fields, fields, i + 1,
                                                        found_none \/ r = NoneBool)

\* (this, Union) inner loop: t against other's members from position j on;
\* "matched" when some member answers Some(true)
assignable_union_inner(t, os, j, found_none) ==
    IF j > Len(os) THEN (IF found_none THEN NoneBool ELSE SomeFalse)
    ELSE LET r == assignable(t, os[j])
         IN IF r = PANIC THEN PANIC
            ELSE IF r = SomeTrue THEN "matched"
            ELSE assignable_union_inner(t, os, j + 1, found_none \/ r = NoneBool)

\* (this, Union) outer loop over this.iter_unions() from position i on
assignable_union_outer(ts, os, i) ==
    IF i > Len(ts) THEN SomeTrue
    ELSE LET r == assignable_union_inner(ts[i], os, 1, FALSE)
         IN IF r = "matched" THEN assignable_union_outer(ts, os, i + 1) ELSE r

RECURSIVE validated_other(_, _, _)
\* The call v.typ.assignable(state, other) (or v.typ.extends(state, other))
\* made with v = other, a Validated: its first operand t is other.typ and
\* its second operand is other again.  In that call the arms before the
\* Validated arm can only expand a Named t, answer for a Generic t
\* (`indeterminate`), or, t being Validated itself, go on with t.typ; any
\* other t reaches the second alternative of the Validated arm, which makes
\* the very same call again: the recursion has no end and the stack
\* overflow ends the process (`abort`).
validated_other(t, indeterminate, abort) ==
    IF t.k = "Generic" THEN indeterminate
    ELSE IF t.k = "Named" THEN validated_other(underlying_named(t), indeterminate, abort)
    ELSE IF t.k = "Validated" THEN validated_other(t.typ, indeterminate, abort)
    ELSE abort

\* the arm `(Validated(v), _) | (_, Validated(v)) => v.typ.assignable(state, other)`:
\* v is self's when self is Validated and other's otherwise, and the second
\* operand of the call is `other` in both alternatives
assignable_validated(this, that) ==
    IF this.k = "Validated" THEN assignable(this.typ, that)
    ELSE validated_other(that.typ, NoneBool, PANIC)

\* assignable_optional without the special case of undefined
assignable_optional_no_undefined(this, that) == assignable(this, that.elem)

\* the arm `(this, Type::Optional(other))`
assignable_optional(this, that) ==
    IF IsBasic(this, "Undefined") THEN SomeTrue ELSE assignable(this, that.elem)

\* Type::assignable
assignable(this, that) ==
    IF IsBasic(that, "Any") THEN SomeTrue
    ELSE IF IsBasic(that, "Never") THEN SomeFalse
    ELSE IF this.k = "Generic" \/ that.k = "Generic" THEN NoneBool
    ELSE IF this.k = "Named" THEN assignable(underlying_named(this), that)
    ELSE IF that.k = "Named" THEN assignable(this, underlying_named(that))
    ELSE IF this.k = "Basic" /\ that.k = "Basic" THEN
            (IF this.b = that.b THEN SomeTrue ELSE SomeFalse)
    ELSE IF this.k = "Literal" /\ that.k = "Basic" THEN
            (IF literal_assignable_basic(this.lit, that.b) THEN SomeTrue ELSE SomeFalse)
    ELSE IF this.k = "Validated" \/ that.k = "Validated" THEN assignable_validated(this, that)
    ELSE IF that.k = "Optional" THEN assignable_optional(this, that)
    ELSE IF this.k = "Tuple" THEN
            (IF that.k = "Tuple"
             THEN IF Len(this.types) # Len(that.types) THEN SomeFalse
                  ELSE assignable_tuple_tuple(this.types, that.types, 1, FALSE)
             ELSE IF that.k = "Array"
                  THEN assignable_tuple_array(this.types, that.elem, 1)
             ELSE SomeFalse)
    ELSE IF this.k = "Enum" THEN
            (IF that.k = "Enum"
             THEN assignable_enum_enum(this.members, that.members, 1)
             ELSE IF that.k = "Interface"
                  THEN assignable_enum_interface(this.members, that.fields, 1, FALSE)
             ELSE SomeFalse)
    ELSE IF this.k = "Interface" THEN
            (IF that.k = "Interface"
             THEN assignable_interface_interface(this.fields, that.fields, 1, FALSE)
             ELSE SomeFalse)
    ELSE IF that.k = "Union" THEN assignable_union_outer(iter_unions(this), that.types, 1)
    ELSE LET r == identical(this, that)
         IN IF r = PANIC THEN PANIC
            ELSE IF r = B_TRUE THEN SomeTrue ELSE SomeFalse

(***************************************************************************)
(* Extension with inference.  The outcome is Yes(inf), No, Unknown or      *)
(* ExtPanic; inf is the sequence of (slot, type) bindings.                 *)
(***************************************************************************)
RECURSIVE extends(_, _)
RECURSIVE extends_tuple_tuple(_, _, _, _, _)
RECURSIVE extends_tuple_array(_, _, _, _)
RECURSIVE extends_enum_enum(_, _, _)
RECURSIVE extends_enum_interface(_, _, _, _)
RECURSIVE extends_interface_interface(_, _, _, _, _)
RECURSIVE extends_union_inner(_, _, _, _)
RECURSIVE extends_union_outer(_, _, _, _)

Binding(idx, typ) == [idx |-> idx, typ |-> typ]

\* fn empty_yes_or_no
empty_yes_or_no(val) == IF val THEN Yes(<<>>) ELSE No

RECURSIVE insert_by_key(_, _)
\* the place of binding b in the sorted sequence: after every entry whose
\* key is not larger (the sort is stable)
insert_by_key(sorted, b) ==
    IF Len(sorted) = 0 THEN <<b>>
    ELSE IF sorted[Len(sorted)].idx <= b.idx THEN Append(sorted, b)
    ELSE Append(insert_by_key(SubSeq(sorted, 1, Len(sorted) - 1), b), sorted[Len(sorted)])

RECURSIVE sort_by_key(_, _, _)
\* inferred.sort_by_key(|(idx, _)| *idx)
sort_by_key(inferred, i, sorted) ==
    IF i > Len(inferred) THEN sorted
    ELSE sort_by_key(inferred, i + 1, insert_by_key(sorted, inferred[i]))

RECURSIVE chunk_by(_, _)
\* chunk_by(|(idx, _)| *idx): runs of consecutive bindings with the same key,
\* as <<[idx, types]>>
chunk_by(sorted, i) ==
    IF i > Len(sorted) THEN <<>>
    ELSE LET rest == chunk_by(sorted, i + 1)
         IN IF Len(rest) > 0 /\ rest[1].idx = sorted[i].idx
            THEN <<[idx |-> sorted[i].idx, types |-> <<sorted[i].typ>> \o rest[1].types]>>
                 \o Tail(rest)
            ELSE <<[idx |-> sorted[i].idx, types |-> <<sorted[i].typ>>]>> \o rest

\* how the types inferred for one slot are combined
group_type(ts) == simplify_union(ts)

RECURSIVE map_chunks(_, _)
\* .map(|(idx, types)| (idx, simplify_union(types))) from position i on
map_chunks(chunks, i) ==
    IF i > Len(chunks) THEN Built(<<>>)
    ELSE LET typ == group_type(chunks[i].types)
         IN IF typ = Panic THEN Aborted
            ELSE LET rest == map_chunks(chunks, i + 1)
                 IN IF rest.panic THEN Aborted
                    ELSE Built(<<Binding(chunks[i].idx, typ)>> \o rest.ts)

\* the grouping of the inferred bindings that ends the (Tuple, Array) arm
group_inferred(inferred) ==
    LET r == map_chunks(chunk_by(sort_by_key(inferred, 1, <<>>), 1), 1)
    IN IF r.panic THEN ExtPanic ELSE Yes(r.ts)

\* (Tuple, Tuple) loop from position i on
extends_tuple_tuple(xs, ys, i, found_unknown, inferred) ==
    IF i > Min(Len(xs), Len(ys))
    THEN (IF found_unknown THEN Unknown ELSE Yes(inferred))
    ELSE LET r == extends(xs[i], ys[i])
         IN IF r.x = "Panic" THEN ExtPanic
            ELSE IF r.x = "No" THEN No
            ELSE IF r.x = "Unknown"
                 THEN extends_tuple_tuple(xs, ys, i + 1, TRUE, inferred)
            ELSE extends_tuple_tuple(xs, ys, i + 1, found_unknown, inferred \o r.inf)

\* (Tuple, Array) loop from position i on
extends_tuple_array(xs, elem, i, inferred) ==
    IF i > Len(xs) THEN group_inferred(inferred)
    ELSE LET r == extends(xs[i], elem)
         IN IF r.x = "Yes" THEN extends_tuple_array(xs, elem, i + 1, inferred \o r.inf)
            ELSE r

\* (Enum, Enum) loop over other's members from position i on
extends_enum_enum(members, others, i) ==
    IF i > Len(others) THEN Yes(<<>>)
    ELSE LET got == enum_fields_get(members, others[i].name)
         IN IF Len(got) = 1 /\ got[1] = others[i].value
            THEN extends_enum_enum(members, others, i + 1)
            ELSE No

\* (Enum, Interface) loop over other's fields from position i on; the
\* fields are compared with assignable
extends_enum_interface(members, fields, i, found_none) ==
    IF i > Len(fields) THEN (IF found_none THEN Unknown ELSE Yes(<<>>))
    ELSE LET field == fields[i]
             got == IF field.name.fk = "String"
                    THEN enum_fields_get(members, field.name.s) ELSE <<>>
         IN IF Len(got) = 0
            THEN extends_enum_interface(members, fields, i + 1, found_none)
            ELSE LET r == assignable(to_type(got[1]), field.typ)
                 IN IF r = PANIC THEN ExtPanic
                    ELSE IF r = SomeFalse THEN No
                    ELSE extends_enum_interface(members, fields, i + 1,
                                                found_none \/ r = NoneBool)

\* (Interface, Interface) loop over other's fields from position i on
extends_interface_interface(this_fields, fields, i, found_unknown, inferred) ==
    IF i > Len(fields)
    THEN (IF found_unknown THEN Unknown ELSE Yes(inferred))
    ELSE LET got == by_name_get(this_fields, fields[i].name)
         IN IF Len(got) = 0 THEN No
            ELSE LET r == extends(got[1].typ, fields[i].typ)
                 IN IF r.x = "Panic" THEN ExtPanic
                    ELSE IF r.x = "No" THEN No
                    ELSE IF r.x = "Unknown"
                         THEN extends_interface_interface(this_fields, fields, i + 1,
                                                          TRUE, inferred)
                    ELSE extends_interface_interface(this_fields, fields, i + 1,
                                                     found_unknown, inferred \o r.inf)

\* (this, Union) inner loop: t against other's members from position j on;
\* acc is [panic, found_yes, found_unknown, inferred]
extends_union_inner(t, os, j, acc) ==
    IF j > Len(os) \/ acc.panic THEN acc
    ELSE LET r == extends(t, os[j])
         IN IF r.x = "Panic" THEN [acc EXCEPT !.panic = TRUE]
            ELSE IF r.x = "Yes"
                 THEN extends_union_inner(t, os, j + 1,
                        [acc EXCEPT !.found_yes = TRUE, !.inferred = acc.inferred \o r.inf])
            ELSE IF r.x = "Unknown"
                 THEN extends_union_inner(t, os, j + 1, [acc EXCEPT !.found_unknown = TRUE])
            ELSE extends_union_inner(t, os, j + 1, acc)

\* (this, Union) outer loop over this.iter_unions() from position i on
extends_union_outer(ts, os, i, acc) ==
    IF i > Len(ts) \/ acc.panic THEN acc
    ELSE extends_union_outer(ts, os, i + 1, extends_union_inner(ts[i], os, 1, acc))

\* the arm `(this, Type::Union(other))`
extends_union(this, that) ==
    LET acc == extends_union_outer(iter_unions(this), that.types, 1,
                 [panic |-> FALSE, found_yes |-> FALSE, found_unknown |-> FALSE,
                  inferred |-> <<>>])
    IN IF acc.panic THEN ExtPanic
       ELSE IF acc.found_yes THEN Yes(acc.inferred)
       ELSE IF acc.found_unknown THEN Unknown
       ELSE No

\* the arm `(Validated(v), _) | (_, Validated(v)) => v.typ.extends(state, other)`
extends_validated(this, that) ==
    IF this.k = "Validated" THEN extends(this.typ, that)
    ELSE validated_other(that.typ, Unknown, ExtPanic)

\* the arm `(this, Type::Optional(other))`
extends_optional(this, that) ==
    IF IsBasic(this, "Undefined") THEN Yes(<<>>) ELSE extends(this, that.elem)

\* extends_inferred binding the expansion of a Named self
extends_inferred_expanded(this, that) ==
    Yes(<<Binding(that.g.idx,
                  IF this.k = "Named" THEN underlying_named(this) ELSE this)>>)

\* the arm `(this, Type::Generic(Generic::Inferred(inferred)))`
extends_inferred(this, that) == Yes(<<Binding(that.g.idx, this)>>)

\* Type::extends
extends(this, that) ==
    IF that.k = "Generic" /\ that.g.gk = "Inferred" THEN extends_inferred(this, that)
    ELSE IF IsBasic(that, "Any") THEN Yes(<<>>)
    ELSE IF IsBasic(that, "Never") THEN No
    ELSE IF this.k = "Generic" \/ that.k = "Generic" THEN Unknown
    ELSE IF this.k = "Named" THEN extends(underlying_named(this), that)
    ELSE IF that.k = "Named" THEN extends(this, underlying_named(that))
    ELSE IF this.k = "Basic" /\ that.k = "Basic" THEN empty_yes_or_no(this.b = that.b)
    ELSE IF this.k = "Literal" /\ that.k = "Basic" THEN
            empty_yes_or_no(literal_assignable_basic(this.lit, that.b))
    ELSE IF this.k = "Validated" \/ that.k = "Validated" THEN extends_validated(this, that)
    ELSE IF that.k = "Optional" THEN extends_optional(this, that)
    ELSE IF this.k = "Tuple" THEN
            (IF that.k = "Tuple"
             THEN IF Len(this.types) # Len(that.types) THEN No
                  ELSE extends_tuple_tuple(this.types, that.types, 1, FALSE, <<>>)
             ELSE IF that.k = "Array"
                  THEN extends_tuple_array(this.types, that.elem, 1, <<>>)
             ELSE No)
    ELSE IF this.k = "Enum" THEN
            (IF that.k = "Enum"
             THEN extends_enum_enum(this.members, that.members, 1)
             ELSE IF that.k = "Interface"
                  THEN extends_enum_interface(this.members, that.fields, 1, FALSE)
             ELSE No)
    ELSE IF this.k = "Interface" THEN
            (IF that.k = "Interface"
             THEN extends_interface_interface(this.fields, that.fields, 1, FALSE, <<>>)
             ELSE No)
    ELSE IF that.k = "Union" THEN extends_union(this, that)
    ELSE LET r == identical(this, that)
         IN IF r = PANIC THEN ExtPanic ELSE empty_yes_or_no(r = B_TRUE)

(***************************************************************************)
(* The types the calls are made on.                                        *)
(***************************************************************************)
Number == Basic("Number")
String == Basic("String")
Undefined == Basic("Undefined")
Never == Basic("Never")
K1 == ClassType(<<>>)
K2 == ClassType(<<"m">>)
T0 == TypeParam(0, <<>>)
R1 == Rule("r1")
R2 == Rule("r2")
FA == FieldString("a")
FB == FieldString("b")

BasicTypes == {Basic(b) : b \in BasicKinds}

LiteralTypes ==
    {Literal(LitString("a")), Literal(LitString("x")), Literal(LitNumber(1)),
     Literal(LitBoolean(TRUE)), Literal(LitBigInt("1"))}

EnumTypes ==
    {EnumType(<<EnumMember("X", EnumString("x")), EnumMember("Y", EnumString("y"))>>),
     EnumType(<<EnumMember("Y", EnumString("y")), EnumMember("X", EnumString("x"))>>),
     EnumType(<<EnumMember("X", EnumString("x"))>>),
     EnumType(<<EnumMember("X", EnumNumber(1))>>)}

NamedTypes == {Named(id, <<>>) : id \in DeclIds} \cup {Named(1, <<String>>)}

GenericTypes ==
    {T0, TypeParam(0, <<String>>), TypeParam(1, <<>>),
     Index(T0, Literal(LitString("a"))),
     Mapped(Keyof(T0), MappedKeyType, <<>>), Mapped(Keyof(T0), MappedKeyType, <<TRUE>>),
     MappedKeyType, Keyof(Named(2, <<>>)),
     Conditional(T0, String, Number, Never),
     Intersection(K1, K2)}
    \cup {Inferred(k) : k \in 0..MaxSlot}

ValidationTypes ==
    {Validation(R1), Validation(R2), Validated(String, R1), Validated(T0, R1),
     Validated(Named(1, <<>>), R2)}

CustomTypes == {WireSpec("Header", String, <<>>), WireSpec("Query", String, <<"q">>)}

ArrayTypes == {Array(String), Array(Number), Array(K1), Array(Inferred(0))}

OptionalTypes == {Optional(String), Optional(Basic("Unknown")), Optional(K1)}

TupleTypes ==
    {Tuple(<<>>), Tuple(<<Number>>), Tuple(<<Number, String>>),
     Tuple(<<String, Number>>), Tuple(<<K1, K2>>), Tuple(<<Number, T0>>)}

UnionTypes ==
    {Union(<<String, Number>>), Union(<<Number, String>>), Union(<<String>>),
     Union(<<Basic("Unknown"), Basic("Unknown")>>),
     Union(<<Literal(LitString("a")), Undefined>>), Union(<<K1, Basic("Null")>>)}

InterfaceTypes ==
    {Interface(<<>>, <<>>, <<>>),
     Interface(<<>>, IndexSig(String, Number), <<>>),
     Interface(<<>>, IndexSig(String, String), <<>>),
     Interface(<<Field(FA, FALSE, Number)>>, <<>>, <<>>),
     Interface(<<Field(FA, FALSE, String)>>, <<>>, <<>>),
     Interface(<<Field(FA, FALSE, Number)>>, IndexSig(String, Number), <<>>),
     Interface(<<Field(FA, FALSE, Number)>>, <<>>, CallSig(<<String>>, <<Number>>)),
     Interface(<<>>, <<>>, CallSig(<<>>, <<String>>)),
     Interface(<<Field(FieldSymbol(1), FALSE, Number)>>, <<>>, <<>>),
     Interface(<<Field(FA, FALSE, Union(<<K1, K2>>))>>, <<>>, <<>>),
     Interface(<<Field(FA, FALSE, Union(<<Basic("Unknown"), String>>))>>, <<>>, <<>>)}

\* one type and more of every variant of Type
Types ==
    BasicTypes \cup LiteralTypes \cup {This, K1, K2} \cup EnumTypes \cup NamedTypes
    \cup GenericTypes \cup ValidationTypes \cup CustomTypes \cup ArrayTypes
    \cup OptionalTypes \cup TupleTypes \cup UnionTypes \cup InterfaceTypes

\* the fields of the interfaces below
FieldsA ==
    {Field(FA, o, t) : o \in BOOLEAN, t \in {Number, T0}} \cup {Field(FA, FALSE, K1)}
FieldsB == {Field(FB, FALSE, t) : t \in {Number, String, T0}}

\* the interfaces over the field names a and b, in both orders; a field name
\* does not appear twice in an interface
FieldLists ==
    {<<>>} \cup {<<f>> : f \in FieldsA \cup FieldsB}
    \cup {<<f, g>> : f \in FieldsA, g \in FieldsB}
    \cup {<<g, f>> : f \in FieldsA, g \in FieldsB}

Interfaces == {Interface(fs, <<>>, <<>>) : fs \in FieldLists}

\* interfaces that list the field name a twice
RepeatedFieldInterfaces ==
    {Interface(<<Field(FA, FALSE, t), Field(FA, o, u)>>, <<>>, <<>>) :
        t \in {Number, String}, u \in {Number, String}, o \in BOOLEAN}

\* the interfaces an enum is compared with: fields X, Z and a symbol
EnumFieldTypes == {Literal(LitString("x")), Literal(LitString("z")), String,
                   Literal(LitNumber(1)), T0}
EnumFields ==
    {Field(n, FALSE, t) : n \in {FieldString("X"), FieldString("Z"), FieldSymbol(1)},
                          t \in EnumFieldTypes}
EnumInterfaces ==
    {Interface(<<f>>, <<>>, <<>>) : f \in EnumFields}
    \cup {Interface(<<f, g>>, <<>>, <<>>) : f \in EnumFields, g \in EnumFields}

\* the elements of the longer lists and tuples
SmallTypes == {Number, String, Literal(LitString("a")), Never, K1, Basic("Any")}

RECURSIVE SeqsUpTo(_, _)
\* the sequences over S of length at most n
SeqsUpTo(S, n) ==
    IF n = 0 THEN {<<>>}
    ELSE LET shorter == SeqsUpTo(S, n - 1)
         IN shorter \cup {Append(q, e) : q \in shorter, e \in S}

\* the tuples handed to extends against an array of an inferred slot
InferTuples == {Tuple(q) : q \in SeqsUpTo(SmallTypes, MaxLen)}
InferArrays == {Array(Inferred(k)) : k \in 0..MaxSlot}

\* the tuples compared element by element, over resolved types, an
\* unresolved type parameter and an inferred slot, and what they are
\* compared with
ElemTypes == {Number, String, T0, Inferred(0)}
ElemTuples == {Tuple(q) : q \in SeqsUpTo(ElemTypes, MaxElems)}
ElemTargets == ElemTuples \cup {Array(t) : t \in ElemTypes}

\* the members of the unions a type is compared with, and the types
\* compared with them
UnionMembers ==
    {Number, String, Literal(LitString("a")), Tuple(<<Number>>),
     EnumType(<<EnumMember("X", EnumString("x"))>>),
     Interface(<<Field(FA, FALSE, Number)>>, <<>>, <<>>), T0, Inferred(0), Inferred(1)}
UnionTargets == {Union(<<m, n>>) : m \in UnionMembers, n \in UnionMembers}
UnionSelves ==
    UnionMembers \cup {Union(<<Number, String>>), Union(<<Literal(LitString("a")), T0>>),
                       Optional(Number)}

\* the lists handed to simplify_union
SimplifyUnionInputs ==
    SeqsUpTo(SmallTypes, MaxLen) \cup {<<a, a>> : a \in Types}
    \cup {<<a, Never>> : a \in Types} \cup {<<Never, a>> : a \in Types}

(***************************************************************************)
(* tsconfig.rs: strip_jsonc_comments.  A text is the sequence of its        *)
(* characters.                                                             *)
(***************************************************************************)
Quote == "\""
Backslash == "\\"
Slash == "/"
Star == "*"
Newline == "\n"
Space == " "

RECURSIVE trim_end(_)
\* `while json_output.ends_with(' ') { json_output.pop(); }`
trim_end(json_output) ==
    IF Len(json_output) > 0 /\ json_output[Len(json_output)] = Space
    THEN trim_end(SubSeq(json_output, 1, Len(json_output) - 1))
    ELSE json_output

\* the state of the scan at the start of a line
ScanStart ==
    [json_output |-> <<>>, block_comment_depth |-> 0, is_in_string |-> FALSE,
     last_char |-> <<>>, broke |-> FALSE]

\* the text pushed in place of the two characters of a comment mark
comment_mark(preserve_locations) ==
    IF preserve_locations THEN <<Space, Space>> ELSE <<>>

\* the body of `for cur_char in line.chars()`; `broke` records the break
\* that ends the scan of the line
scan_char(st, cur_char, preserve_locations) ==
    LET is_in_string ==
            IF st.block_comment_depth = 0 /\ st.last_char # <<Backslash>>
               /\ cur_char = Quote
            THEN ~st.is_in_string ELSE st.is_in_string
        marked == st.json_output \o comment_mark(preserve_locations)
    IN IF ~is_in_string /\ st.last_char = <<Slash>> /\ cur_char = Slash
       THEN [st EXCEPT !.is_in_string = is_in_string, !.last_char = <<>>,
                       !.json_output = marked, !.broke = TRUE]
       ELSE IF ~is_in_string /\ st.last_char = <<Slash>> /\ cur_char = Star
       THEN [st EXCEPT !.is_in_string = is_in_string, !.last_char = <<>>,
                       !.json_output = marked,
                       !.block_comment_depth = st.block_comment_depth + 1]
       ELSE IF ~is_in_string /\ st.last_char = <<Star>> /\ cur_char = Slash
       THEN [st EXCEPT !.is_in_string = is_in_string, !.last_char = <<>>,
                       !.json_output = marked,
                       !.block_comment_depth =
                           IF st.block_comment_depth = 0 THEN 0
                           ELSE st.block_comment_depth - 1]
       ELSE [st EXCEPT !.is_in_string = is_in_string, !.last_char = <<cur_char>>,
                       !.json_output =
                           IF st.block_comment_depth = 0
                           THEN st.json_output \o st.last_char
                           ELSE IF preserve_locations
                                THEN Append(st.json_output, Space)
                                ELSE st.json_output]

\* the end of a line: the last character is put out, trailing spaces are
\* removed and the newline is pushed; last_char starts anew on the next line
scan_end_of_line(st, preserve_locations) ==
    LET flushed ==
            IF st.last_char = <<>> THEN st.json_output
            ELSE IF st.block_comment_depth = 0 THEN st.json_output \o st.last_char
            ELSE IF preserve_locations THEN Append(st.json_output, Space)
            ELSE st.json_output
    IN [st EXCEPT !.json_output = Append(trim_end(flushed), Newline),
                  !.last_char = <<>>, !.broke = FALSE]

RECURSIVE scan_from(_, _, _, _)
\* `for line in jsonc_input.split('\n')`, from character i on
scan_from(jsonc_input, i, st, preserve_locations) ==
    IF i > Len(jsonc_input) THEN scan_end_of_line(st, preserve_locations).json_output
    ELSE IF jsonc_input[i] = Newline
    THEN scan_from(jsonc_input, i + 1, scan_end_of_line(st, preserve_locations),
                   preserve_locations)
    ELSE IF st.broke THEN scan_from(jsonc_input, i + 1, st, preserve_locations)
    ELSE scan_from(jsonc_input, i + 1,
                   scan_char(st, jsonc_input[i], preserve_locations),
                   preserve_locations)

\* strip_jsonc_comments
strip_jsonc_comments(jsonc_input, preserve_locations) ==
    scan_from(jsonc_input, 1, ScanStart, preserve_locations)

(***************************************************************************)
(* cron.rs: DecodedCronJobConfig::parse_schedule.  An Option is the empty   *)
(* sequence or a sequence of one value; a Duration is its whole seconds and *)
(* the nanoseconds beyond them.                                            *)
(***************************************************************************)
Duration(secs, subsec_nanos) == [secs |-> secs, subsec_nanos |-> subsec_nanos]
as_secs(d) == d.secs

\* enum CronJobSchedule and the errors of parse_schedule
Every(n) == [k |-> "Every", n |-> n]
Cron(expr) == [k |-> "Cron", expr |-> expr]
ParseErr(msg) == [k |-> "Err", msg |-> msg]

\* DecodedCronJobConfig::parse_schedule
parse_schedule(every, schedule) ==
    IF every = <<>> /\ schedule # <<>> THEN Cron(schedule[1])
    ELSE IF every # <<>> /\ schedule = <<>>
    THEN LET secs == as_secs(every[1])
             mins == secs \div 60
         IN IF secs % 60 # 0
            THEN ParseErr("every must be a multiple of 60 seconds")
            ELSE IF mins > 24 * 60
            THEN ParseErr("every must be at most 24 hours")
            ELSE Every(mins)
    ELSE IF every = <<>> /\ schedule = <<>>
    THEN ParseErr("expected either every or schedule to be set")
    ELSE ParseErr("expected either every or schedule to be set, not both")

(***************************************************************************)
(* The calls.  The algebra keeps no state between calls: a call takes its  *)
(* operands and returns its outcome.                                       *)
(***************************************************************************)
NoType == Basic("Void")

Init ==
    /\ pc = "idle"
    /\ op = "none"
    /\ self = NoType
    /\ other = NoType
    /\ types = <<>>
    /\ res = [ret |-> "none"]
    /\ handler = <<>>

\* what a call reports to the diagnostic handler.  Only intersect reports;
\* a call that aborts ends the process, and what it had reported before is
\* not kept.
Reported(a, b, r) ==
    IF r # Panic
    THEN [n \in 1..intersect_errs(a, b) |-> CallSignatureError]
    ELSE <<>>

\* a call of an operation, with what it reports
Invoke(name, a, b, ts, r, errs) ==
    /\ pc = "idle"
    /\ pc' = "returned"
    /\ op' = name
    /\ self' = a
    /\ other' = b
    /\ types' = ts
    /\ res' = [ret |-> r]
    /\ handler' = errs

\* a call of an operation that reports nothing
Call(name, a, b, ts, r) == Invoke(name, a, b, ts, r, <<>>)

\* a call of intersect
Call_intersect_of(a, b) ==
    Invoke("intersect", a, b, <<>>, intersect(a, b), Reported(a, b, intersect(a, b)))

Call_identical ==
    \/ \E a \in Types, b \in Types :
          Call("identical", a, b, <<>>, identical(a, b))
    \/ \E a \in Interfaces, b \in Interfaces :
          Call("identical", a, b, <<>>, identical(a, b))
    \/ \E a \in Interfaces \cup RepeatedFieldInterfaces, b \in RepeatedFieldInterfaces :
          \/ Call("identical", a, b, <<>>, identical(a, b))
          \/ Call("identical", b, a, <<>>, identical(b, a))

\* the literals that are hashed and compared
HashLiterals ==
    {LitString(v) : v \in {"", "a", "b", "1"}} \cup {LitBoolean(v) : v \in BOOLEAN}
    \cup {LitNumber(v) : v \in 0..MaxLen} \cup {LitBigInt(v) : v \in {"1", "2"}}

\* two literals are hashed, as a HashMap does with a key it holds and a key
\* it looks up
Call_hash ==
    \E a \in HashLiterals, b \in HashLiterals :
       Call("hash", Literal(a), Literal(b), <<>>,
            [self |-> Literal_hash(a), other |-> Literal_hash(b)])

\* the pieces of the texts that are stripped: string literals, comments (a
\* line comment with the newline that ends it) and other JSON text
StringPieces ==
    {<<Quote, "a", Quote>>,
     <<Quote, Backslash, Quote, Quote>>,
     <<Quote, "a", Backslash, Backslash, Quote>>,
     <<Quote, Slash, Slash, Quote>>,
     <<Quote, Slash, Star, Quote>>}
CommentPieces ==
    {<<Slash, Slash, "a", Newline>>,
     <<Slash, Star, "a", Star, Slash>>,
     <<Slash, Star, Slash, Star, "a", Star, Slash, Star, Slash>>,
     <<Slash, Star, Quote, Star, Slash>>,
     <<Slash, Star, Slash, Slash, Star, Slash>>}
PlainPieces == {<<"1">>, <<Newline>>}
Pieces == StringPieces \cup CommentPieces \cup PlainPieces

RECURSIVE Concat(_)
\* the text made of the pieces
Concat(pieces) ==
    IF pieces = <<>> THEN <<>> ELSE Head(pieces) \o Concat(Tail(pieces))

\* a tsconfig text is stripped of its comments
Call_strip_jsonc_comments ==
    \E pieces \in SeqsUpTo(Pieces, MaxPieces), preserve_locations \in BOOLEAN :
       Call("strip_jsonc_comments", Concat(pieces), preserve_locations, pieces,
            strip_jsonc_comments(Concat(pieces), preserve_locations))

\* the settings of `every` and of `schedule` in a cron job's configuration:
\* durations around the whole minutes from none to a day and beyond, with
\* and without a fraction of a second
EveryDurations ==
    {Duration(60 * m + r, f) : m \in {0, 1, 2, 24 * 60 - 1, 24 * 60, 24 * 60 + 1},
                               r \in {0, 1, 59}, f \in {0, 500000000}}
CronExprs == {"* * * * *", "0 4 * * *", "*/5 * * * *", "0 0 1 * *"}

\* the schedule of a cron job is parsed
Call_parse_schedule ==
    \E every \in {<<>>} \cup {<<d>> : d \in EveryDurations},
       schedule \in {<<>>} \cup {<<e>> : e \in CronExprs} :
       Call("parse_schedule", every, schedule, <<>>, parse_schedule(every, schedule))

Call_union_merge ==
    \E a \in Types, b \in Types :
       Call("union_merge", a, b, <<>>, union_merge(a, b))

Call_simplify_union ==
    \E ts \in SimplifyUnionInputs :
       Call("simplify_union", NoType, NoType, ts, simplify_union(ts))

Call_intersect ==
    \/ \E a \in Types, b \in Types :
          Call_intersect_of(a, b)
    \/ \E a \in Interfaces, b \in Interfaces :
          Call_intersect_of(a, b)

\* the operands of the calls of every entry point: classes, types built
\* over classes, and types free of them
EntryTypes ==
    {K1, K2, Number, String, Never, Basic("Any"), Literal(LitString("a")),
     Array(K1), Optional(K2), Tuple(<<K1, K2>>), Union(<<K1, Basic("Null")>>),
     Union(<<K1, K2>>), Union(<<Basic("Unknown"), String>>),
     Named(3, <<>>), Interface(<<Field(FA, FALSE, K1)>>, <<>>, <<>>),
     Interface(<<Field(FA, FALSE, Number)>>, <<>>, <<>>)}

\* every entry point of the algebra on the same pair of operands
Call_entry_points ==
    \E a \in EntryTypes, b \in EntryTypes :
       \/ Call("identical", a, b, <<>>, identical(a, b))
       \/ Call("union_merge", a, b, <<>>, union_merge(a, b))
       \/ Call("simplify_union", NoType, NoType, <<a, b>>, simplify_union(<<a, b>>))
       \/ Call_intersect_of(a, b)
       \/ Call("assignable", a, b, <<>>, assignable(a, b))
       \/ Call("extends", a, b, <<>>, extends(a, b))

\* intersect with an interface that repeats a field name
Call_intersect_repeated ==
    \E a \in Interfaces \cup RepeatedFieldInterfaces, b \in RepeatedFieldInterfaces :
       \/ Call_intersect_of(a, b)
       \/ Call_intersect_of(b, a)

Call_assignable ==
    \/ \E a \in Types, b \in Types :
          Call("assignable", a, b, <<>>, assignable(a, b))
    \/ \E a \in Interfaces, b \in Interfaces :
          Call("assignable", a, b, <<>>, assignable(a, b))
    \/ \E a \in EnumTypes, b \in EnumInterfaces :
          Call("assignable", a, b, <<>>, assignable(a, b))
    \/ \E a \in UnionSelves, b \in UnionTargets :
          Call("assignable", a, b, <<>>, assignable(a, b))

\* assignable against an optional of every type
Call_assignable_optional ==
    \E a \in Types, x \in Types :
       Call("assignable", a, Optional(x), <<>>, assignable(a, Optional(x)))

Call_extends ==
    \/ \E a \in Types, b \in Types :
          Call("extends", a, b, <<>>, extends(a, b))
    \/ \E a \in Interfaces, b \in Interfaces :
          Call("extends", a, b, <<>>, extends(a, b))
    \/ \E a \in EnumTypes, b \in EnumInterfaces :
          Call("extends", a, b, <<>>, extends(a, b))
    \/ \E a \in InferTuples, b \in InferArrays :
          Call("extends", a, b, <<>>, extends(a, b))
    \/ \E a \in ElemTuples, b \in ElemTargets :
          Call("extends", a, b, <<>>, extends(a, b))
    \/ \E a \in UnionSelves, b \in UnionTargets :
          Call("extends", a, b, <<>>, extends(a, b))

\* extends against an optional of every type
Call_extends_optional ==
    \E a \in Types, x \in Types :
       Call("extends", a, Optional(x), <<>>, extends(a, Optional(x)))

Return ==
    /\ pc = "returned"
    /\ pc' = "idle"
    /\ op' = "none"
    /\ self' = NoType
    /\ other' = NoType
    /\ types' = <<>>
    /\ res' = [ret |-> "none"]
    /\ handler' = <<>>

Next ==
    \/ Call_identical
    \/ Call_union_merge
    \/ Call_simplify_union
    \/ Call_intersect
    \/ Call_entry_points
    \/ Call_intersect_repeated
    \/ Call_assignable
    \/ Call_assignable_optional
    \/ Call_extends
    \/ Call_extends_optional
    \/ Call_hash
    \/ Call_strip_jsonc_comments
    \/ Call_parse_schedule
    \/ Return

Spec == Init /\ [][Next]_vars

\* the calls of one operation only
NextIdentical == Call_identical \/ Return
SpecIdentical == Init /\ [][NextIdentical]_vars
NextUnion == Call_union_merge \/ Call_simplify_union \/ Return
SpecUnion == Init /\ [][NextUnion]_vars
NextIntersect == Call_intersect \/ Return
SpecIntersect == Init /\ [][NextIntersect]_vars
NextAssignable == Call_assignable \/ Return
SpecAssignable == Init /\ [][NextAssignable]_vars
NextExtends == Call_extends \/ Return
SpecExtends == Init /\ [][NextExtends]_vars
NextEntryPoints == Call_entry_points \/ Call_intersect_repeated \/ Return
SpecEntryPoints == Init /\ [][NextEntryPoints]_vars
NextOptional == Call_assignable_optional \/ Call_extends_optional \/ Return
SpecOptional == Init /\ [][NextOptional]_vars
NextHash == Call_hash \/ Return
SpecHash == Init /\ [][NextHash]_vars
NextStrip == Call_strip_jsonc_comments \/ Return
SpecStrip == Init /\ [][NextStrip]_vars
NextCron == Call_parse_schedule \/ Return
SpecCron == Init /\ [][NextCron]_vars

Returned(name) == pc = "returned" /\ op = name

(***************************************************************************)
(* Properties.                                                             *)
(***************************************************************************)
IsInferred(t) == t.k = "Generic" /\ t.g.gk = "Inferred"

\* C1: identical is reflexive: identical(t, t) returns true, without
\* aborting, for every type t of every variant.
C1_IdenticalReflexive ==
    Returned("identical") /\ self = other => res.ret = B_TRUE

C3_UnionIdempotent ==
    Returned("simplify_union") /\ Len(types) = 2 /\ types[1] = types[2]
        /\ types[1] # Never
    => res.ret = types[1]

C5_TupleArrayInference ==
    Returned("extends") /\ self.k = "Tuple" /\ Len(self.types) > 0
        /\ other.k = "Array" /\ IsInferred(other.elem)
    => res.ret = Yes(<<Binding(other.elem.g.idx, simplify_union(self.types))>>)

RECURSIVE ContainsGeneric(_)
\* an unresolved Generic occurs in t, Named types expanded
ContainsGeneric(t) ==
    CASE t.k = "Generic" -> TRUE
      [] t.k \in {"Array", "Optional"} -> ContainsGeneric(t.elem)
      [] t.k \in {"Tuple", "Union"} ->
            \E i \in 1..Len(t.types) : ContainsGeneric(t.types[i])
      [] t.k = "Interface" ->
            \/ \E i \in 1..Len(t.fields) : ContainsGeneric(t.fields[i].typ)
            \/ \E i \in 1..Len(t.index) :
                  ContainsGeneric(t.index[i].key) \/ ContainsGeneric(t.index[i].value)
            \/ \E i \in 1..Len(t.call) :
                  \/ \E j \in 1..Len(t.call[i].params) : ContainsGeneric(t.call[i].params[j])
                  \/ \E j \in 1..Len(t.call[i].returns) : ContainsGeneric(t.call[i].returns[j])
      [] t.k = "Named" ->
            \/ \E i \in 1..Len(t.type_arguments) : ContainsGeneric(t.type_arguments[i])
            \/ ContainsGeneric(underlying_named(t))
      [] t.k = "Validated" -> ContainsGeneric(t.typ)
      [] t.k = "Custom" -> ContainsGeneric(t.underlying)
      [] OTHER -> FALSE

FieldNames(t) == {t.fields[i].name : i \in 1..Len(t.fields)}
\* the field of interface t called name (field names are not repeated)
FieldOf(t, name) == t.fields[CHOOSE i \in 1..Len(t.fields) : t.fields[i].name = name]
BothInterfaces == self.k = "Interface" /\ other.k = "Interface"

\* C6: interface width subtyping: for Generic-free interfaces S and O,
\* S.assignable(O) is Yes exactly when every field of O exists in S under the
\* same name with a type assignable to O's field type, and it is No as soon
\* as O has a field name that S lacks.
C6_InterfaceWidth ==
    Returned("assignable") /\ BothInterfaces
        /\ ~ContainsGeneric(self) /\ ~ContainsGeneric(other)
    => /\ res.ret = SomeTrue <=>
            \A i \in 1..Len(other.fields) : \E j \in 1..Len(self.fields) :
                /\ self.fields[j].name = other.fields[i].name
                /\ assignable(self.fields[j].typ, other.fields[i].typ) = SomeTrue
       /\ ~(FieldNames(other) \subseteq FieldNames(self)) => res.ret = SomeFalse

MemberNames(t) == {t.members[i].name : i \in 1..Len(t.members)}
StringFields(t) == {i \in 1..Len(t.fields) : t.fields[i].name.fk = "String"}

\* C7: an Enum self is assignable (Yes) to an Interface other only if every
\* string-named field of other corresponds to an enum member of the same
\* name whose value, as a literal, is assignable to the field's type; a
\* field whose name matches no enum member makes the result No.
C7_EnumToInterface ==
    Returned("assignable") /\ self.k = "Enum" /\ other.k = "Interface"
    => /\ res.ret = SomeTrue =>
            \A i \in StringFields(other) : \E j \in 1..Len(self.members) :
                /\ self.members[j].name = other.fields[i].name.s
                /\ assignable(to_type(self.members[j].value), other.fields[i].typ) = SomeTrue
       /\ (\E i \in StringFields(other) : other.fields[i].name.s \notin MemberNames(self))
            => res.ret = SomeFalse

\* the comparison of field i of other with the field of self of that name
FieldComparison(i) ==
    IF other.fields[i].name \in FieldNames(self)
    THEN assignable(FieldOf(self, other.fields[i].name).typ, other.fields[i].typ)
    ELSE "missing"

\* C8: when S.assignable(O) compares two interfaces and at least one field
\* comparison is Unknown while every other one is Yes, the result is
\* Unknown, wherever the Unknown field sits in O's field order.
C8_UnknownPropagates ==
    Returned("assignable") /\ BothInterfaces
        /\ (\A i \in 1..Len(other.fields) : FieldComparison(i) \in {SomeTrue, NoneBool})
        /\ (\E i \in 1..Len(other.fields) : FieldComparison(i) = NoneBool)
    => res.ret = NoneBool

C8_Witness ==
    /\ Returned("assignable")
    /\ BothInterfaces
    /\ Len(other.fields) = 2
    /\ FieldComparison(1) = NoneBool
    /\ FieldComparison(2) = SomeTrue
    /\ res.ret = NoneBool

\* C9: Interface x Interface intersection is field-wise: the result is an
\* Interface whose fields are the union of both field lists; a field of one
\* side only is copied unchanged, a field of both sides has the type
\* intersect(x.typ, y.typ) and is optional when both are.
C9_InterfaceIntersection ==
    Returned("intersect") /\ BothInterfaces
    => /\ res.ret.k = "Interface"
       /\ FieldNames(res.ret) = FieldNames(self) \cup FieldNames(other)
       /\ Len(res.ret.fields) = Cardinality(FieldNames(self) \cup FieldNames(other))
       /\ \A i \in 1..Len(res.ret.fields) :
            LET f == res.ret.fields[i]
            IN IF f.name \in FieldNames(self) /\ f.name \in FieldNames(other)
               THEN LET x == FieldOf(self, f.name)
                        y == FieldOf(other, f.name)
                    IN /\ f.typ = intersect(x.typ, y.typ)
                       /\ f.optional = (x.optional /\ y.optional)
               ELSE IF f.name \in FieldNames(self) THEN f = FieldOf(self, f.name)
               ELSE f = FieldOf(other, f.name)

\* C10: Undefined is assignable to and extends Optional(X), with no
\* bindings, whatever X is; for any other self that is not Named, Generic or
\* Validated the result against Optional(X) is the result against X.
C10_OptionalTarget ==
    /\ Returned("assignable") /\ other.k = "Optional" =>
          IF self = Undefined THEN res.ret = SomeTrue
          ELSE self.k \notin {"Named", "Generic", "Validated"} =>
                  res.ret = assignable(self, other.elem)
    /\ Returned("extends") /\ other.k = "Optional" =>
          IF self = Undefined THEN res.ret = Yes(<<>>)
          ELSE self.k \notin {"Named", "Generic", "Validated"} =>
                  res.ret = extends(self, other.elem)

C10_Witness ==
    /\ Returned("extends")
    /\ self = Undefined
    /\ other = Optional(Number)
    /\ res.ret = Yes(<<>>)

\* the call in flight ended in an abort instead of returning a value
Aborts ==
    /\ pc = "returned"
    /\ CASE op \in {"identical", "assignable"} -> res.ret = PANIC
         [] op \in {"union_merge", "simplify_union", "intersect"} -> res.ret = Panic
         [] op = "extends" -> res.ret = ExtPanic

\* C11: no entry point of the algebra (identical, union_merge,
\* simplify_union, intersect, assignable, extends) ever aborts: every call
\* returns a value, two Class types and interfaces that repeat a field name
\* included.
C11_NeverAborts == ~Aborts

\* C12: assignable returns Unknown only when an unresolved Generic occurs in
\* self or other: for every pair of types that contain no Generic anywhere,
\* Named types expanded, self.assignable(other) is Yes or No, never Unknown.
C12_UnknownOnlyFromGeneric ==
    Returned("assignable") /\ ~ContainsGeneric(self) /\ ~ContainsGeneric(other)
    => res.ret \in {SomeTrue, SomeFalse}

DeclaresCall(t) == Len(t.call) = 1

\* C13: intersect of two Interfaces appends a diagnostic to the sink exactly
\* when both interfaces declare a call signature, exactly one for that pair,
\* still returns an Interface, and that Interface has no call signature.
C13_CallSignatureDiagnostic ==
    Returned("intersect") /\ BothInterfaces
    => /\ Len(handler) = IF DeclaresCall(self) /\ DeclaresCall(other) THEN 1 ELSE 0
       /\ res.ret.k = "Interface"
       /\ res.ret.call = <<>>

\* the index signature that merges those of interfaces x and y
MergedIndex(x, y) ==
    IF Len(x.index) = 1 /\ Len(y.index) = 1
    THEN IndexSig(intersect(x.index[1].key, y.index[1].key),
                  intersect(x.index[1].value, y.index[1].value))
    ELSE IF Len(x.index) = 1 THEN x.index
    ELSE y.index

\* C14: index signature of an Interface x Interface intersection: absent if
\* the merged field list is non-empty; if it is empty, (intersect of keys,
\* intersect of values) when both sides have one, the single existing one
\* when one side has one, absent when neither has.
C14_IndexSignature ==
    Returned("intersect") /\ BothInterfaces
    => /\ res.ret.k = "Interface"
       /\ res.ret.index = IF res.ret.fields # <<>> THEN <<>>
                          ELSE MergedIndex(self, other)

\* t is none of Any, Never, Unknown, a Union or an Optional
PlainOperand(t) ==
    /\ t.k \notin {"Union", "Optional"}
    /\ ~IsBasic(t, "Any") /\ ~IsBasic(t, "Never") /\ ~IsBasic(t, "Unknown")

\* C15: intersect(Optional(X), Y), for a Y that is not Optional, absorbing
\* or a Union, treats the optional as X | undefined: the result is
\* simplify_union of the results other than Never of intersecting Y with
\* every flattened member of X and with Undefined, in either operand order;
\* intersect(Optional(String), Undefined) is Undefined.
C15_OptionalAsUnion ==
    Returned("intersect") =>
        /\ self.k = "Optional" /\ PlainOperand(other) => res.ret = union_with(self, other)
        /\ other.k = "Optional" /\ PlainOperand(self) => res.ret = union_with(other, self)

\* self and other are compared position by position by extends: two tuples
\* of equal length, a tuple and an array, or two interfaces
Conjunction ==
    \/ self.k = "Tuple" /\ other.k = "Tuple" /\ Len(self.types) = Len(other.types)
    \/ self.k = "Tuple" /\ other.k = "Array"
    \/ BothInterfaces

\* the verdicts of the positions: the elements of self, or the fields of other
PositionVerdicts ==
    IF self.k = "Tuple" /\ other.k = "Tuple"
    THEN [i \in 1..Len(self.types) |-> extends(self.types[i], other.types[i]).x]
    ELSE IF self.k = "Tuple"
    THEN [i \in 1..Len(self.types) |-> extends(self.types[i], other.elem).x]
    ELSE [i \in 1..Len(other.fields) |->
            IF other.fields[i].name \in FieldNames(self)
            THEN extends(FieldOf(self, other.fields[i].name).typ, other.fields[i].typ).x
            ELSE "No"]

Among(verdicts, v) == \E i \in 1..Len(verdicts) : verdicts[i] = v

\* C16: conjunction rule of extends: for Tuple-vs-Tuple of equal length,
\* Tuple-vs-Array and Interface-vs-Interface the result is No whenever any
\* position is No, even after an Unknown position; Unknown only if no
\* position is No and at least one is Unknown; otherwise Yes.
C16_ConjunctionRule ==
    Returned("extends") /\ Conjunction
    => res.ret.x = IF Among(PositionVerdicts, "No") THEN "No"
                   ELSE IF Among(PositionVerdicts, "Unknown") THEN "Unknown"
                   ELSE "Yes"

\* the members obtained by flattening the unions and optionals of t
Flattened(t) == {iter_unions(t)[i] : i \in 1..Len(iter_unions(t))}
Members(t) == {t.types[i] : i \in 1..Len(t.types)}

\* C17: union target in assignable: for a Generic-free self of any variant
\* and a Union other, self.assignable(other) is Yes exactly when every
\* flattened member of self is assignable to at least one member of other;
\* a Tuple, Enum or Interface self is assignable to a Union that contains a
\* member identical to it.
C17_UnionTargetAssignable ==
    Returned("assignable") /\ other.k = "Union"
        /\ self.k \in {"Basic", "Literal", "Tuple", "Enum", "Interface", "Union", "Optional"}
        /\ ~ContainsGeneric(self) /\ ~ContainsGeneric(other)
    => /\ res.ret = SomeTrue <=>
            \A m \in Flattened(self) : \E o \in Members(other) :
                assignable(m, o) = SomeTrue
       /\ self.k \in {"Tuple", "Enum", "Interface"} /\ self \in Members(other)
            => res.ret = SomeTrue

\* the verdicts of self against each member of the union other
MemberVerdicts == [i \in 1..Len(other.types) |-> extends(self, other.types[i])]

RECURSIVE YesBindings(_, _)
\* the bindings of the verdicts that are Yes, from position i on
YesBindings(verdicts, i) ==
    IF i > Len(verdicts) THEN <<>>
    ELSE (IF verdicts[i].x = "Yes" THEN verdicts[i].inf ELSE <<>>)
         \o YesBindings(verdicts, i + 1)

\* C18: union target in extends: for any self and a Union other, the result
\* is Yes if self extends at least one member of other with Yes, carrying
\* the bindings of all members that answered Yes; with no Yes it is Unknown
\* if some member answered Unknown; otherwise No.
C18_UnionTargetExtends ==
    Returned("extends") /\ other.k = "Union"
    => res.ret =
         IF \E i \in 1..Len(other.types) : MemberVerdicts[i].x = "Yes"
         THEN Yes(YesBindings(MemberVerdicts, 1))
         ELSE IF \E i \in 1..Len(other.types) : MemberVerdicts[i].x = "Unknown"
         THEN Unknown
         ELSE No

\* C19: for every self (Any, Never, Generic, Named and Validated included)
\* and every slot k, self.extends(Generic(Inferred(k))) is Yes with exactly
\* the single binding k -> self, self unexpanded and unmodified: the rule
\* comes before every other rule of extends.
C19_InferredBindsSelf ==
    Returned("extends") /\ IsInferred(other)
    => res.ret = Yes(<<Binding(other.g.idx, self)>>)

C19_Witness ==
    /\ Returned("extends")
    /\ self = Named(4, <<>>)
    /\ other = Inferred(1)
    /\ res.ret = Yes(<<Binding(1, Named(4, <<>>))>>)

\* C20: in every Yes result of extends each inferred slot index appears in at
\* most one binding: positions that bind the same slot (tuple against array,
\* tuple against tuple, interface fields, union members) have their types
\* combined into one binding for that slot.
C20_OneBindingPerSlot ==
    Returned("extends") /\ res.ret.x = "Yes"
    => \A i, j \in 1..Len(res.ret.inf) :
           res.ret.inf[i].idx = res.ret.inf[j].idx => i = j

\* C21: simplify_union returns a minimal union for every list in every
\* order: a Union it builds has at least two members, and no two of them
\* can be merged by union_merge (no literal next to its own basic kind, no
\* Any next to another member, no two identical members).
C21_MinimalUnion ==
    Returned("simplify_union") /\ res.ret # Panic
        /\ (\A n \in 1..Len(types) : types[n].k # "Union")
        /\ res.ret.k = "Union"
    => /\ Len(res.ret.types) >= 2
       /\ \A i, j \in 1..Len(res.ret.types) :
             i # j => union_merge(res.ret.types[i], res.ret.types[j]) = None

\* C22: Validated is transparent to assignable and extends on both sides:
\* self against Validated{T, e} gives the verdict of self against T, and
\* Validated{T, e} against other gives the verdict of T against other.
C22_ValidatedTransparent ==
    /\ Returned("assignable") /\ other.k = "Validated"
       => res.ret = assignable(self, other.typ)
    /\ Returned("assignable") /\ self.k = "Validated"
       => res.ret = assignable(self.typ, other)
    /\ Returned("extends") /\ other.k = "Validated"
       => res.ret = extends(self, other.typ)
    /\ Returned("extends") /\ self.k = "Validated"
       => res.ret = extends(self.typ, other)

\* the index signatures of x and y are both absent, or both present with
\* identical key and identical value
SameIndex(x, y) ==
    /\ Len(x.index) = Len(y.index)
    /\ Len(x.index) = 1 =>
          /\ identical(x.index[1].key, y.index[1].key) = B_TRUE
          /\ identical(x.index[1].value, y.index[1].value) = B_TRUE

\* every field of x and every field of y of the same name have identical
\* type and equal optional flag
SameNamedFieldsAgree(x, y) ==
    \A i \in 1..Len(x.fields), j \in 1..Len(y.fields) :
       x.fields[i].name = y.fields[j].name
       => /\ identical(x.fields[i].typ, y.fields[j].typ) = B_TRUE
          /\ x.fields[i].optional = y.fields[j].optional

\* C23: interface identity: identical on two Interfaces is true exactly when
\* both have the same set of field names, each same-named pair of fields has
\* identical type and equal optional flag, and the index signatures are both
\* absent or both present with identical key and value.
C23_InterfaceIdentity ==
    Returned("identical") /\ BothInterfaces
    => (res.ret = B_TRUE <=> /\ FieldNames(self) = FieldNames(other)
                             /\ SameNamedFieldsAgree(self, other)
                             /\ SameIndex(self, other))

\* a field name is listed once in interface t
DistinctNames(t) == Cardinality(FieldNames(t)) = Len(t.fields)

\* C23, for interfaces that list no field name twice: identical is true
\* exactly when both have the same set of field names, each same-named pair
\* of fields has identical type and equal optional flag, and the index
\* signatures are both absent or both present with identical key and value.
C23_InterfaceIdentityDistinct ==
    Returned("identical") /\ BothInterfaces
        /\ DistinctNames(self) /\ DistinctNames(other)
    => (res.ret = B_TRUE <=> /\ FieldNames(self) = FieldNames(other)
                             /\ SameNamedFieldsAgree(self, other)
                             /\ SameIndex(self, other))

C23_Witness ==
    /\ Returned("identical") /\ BothInterfaces
    /\ Len(self.fields) = 2 /\ Len(other.fields) = 2
    /\ DistinctNames(self) /\ DistinctNames(other)
    /\ self.fields[1] = other.fields[2] /\ self.fields[2] = other.fields[1]
    /\ res.ret = B_TRUE

\* how many times member m is listed in enum t
MemberCount(t, m) == Cardinality({i \in 1..Len(t.members) : t.members[i] = m})

\* C24: enum identity: identical on two Enums is true exactly when they have
\* the same number of members and the same multiset of (name, value)
\* members, in whatever order the members are listed.
C24_EnumIdentity ==
    Returned("identical") /\ self.k = "Enum" /\ other.k = "Enum"
    => (res.ret = B_TRUE
        <=> /\ Len(self.members) = Len(other.members)
            /\ \A i \in 1..Len(self.members) :
                  MemberCount(self, self.members[i])
                  = MemberCount(other, self.members[i]))

\* C25: hashing a Literal is value-based and terminates for every literal
\* kind: hashing a String, Boolean, Number and BigInt literal each completes,
\* and two literals that compare equal produce the same hash.
C25_LiteralHash ==
    Returned("hash")
    => /\ res.ret.self # PANIC
       /\ res.ret.other # PANIC
       /\ Literal_eq(self.lit, other.lit) => res.ret.self = res.ret.other

RECURSIVE Occurs(_, _)
\* a type of variant kind occurs in the tree of t (a Named type is not
\* expanded, the parts of a Generic are not looked into)
Occurs(kind, t) ==
    \/ t.k = kind
    \/ CASE t.k \in {"Array", "Optional"} -> Occurs(kind, t.elem)
         [] t.k \in {"Tuple", "Union"} ->
               \E i \in 1..Len(t.types) : Occurs(kind, t.types[i])
         [] t.k = "Interface" ->
               \/ \E i \in 1..Len(t.fields) : Occurs(kind, t.fields[i].typ)
               \/ \E i \in 1..Len(t.index) :
                     Occurs(kind, t.index[i].key) \/ Occurs(kind, t.index[i].value)
               \/ \E i \in 1..Len(t.call) :
                     \/ \E j \in 1..Len(t.call[i].params) : Occurs(kind, t.call[i].params[j])
                     \/ \E j \in 1..Len(t.call[i].returns) : Occurs(kind, t.call[i].returns[j])
         [] t.k = "Named" ->
               \E i \in 1..Len(t.type_arguments) : Occurs(kind, t.type_arguments[i])
         [] t.k = "Validated" -> Occurs(kind, t.typ)
         [] t.k = "Custom" -> Occurs(kind, t.underlying)
         [] OTHER -> FALSE

\* C26: termination without Named: for every pair of finite Type trees that
\* hold no Named type, assignable terminates.  Operands that hold no Class
\* cannot reach the unimplemented comparison of classes, so a call on them
\* that does not return is one whose recursion has no end.
C26_TerminatesWithoutNamed ==
    Returned("assignable")
        /\ ~Occurs("Named", self) /\ ~Occurs("Named", other)
        /\ ~Occurs("Class", self) /\ ~Occurs("Class", other)
    => res.ret # PANIC

\* the verdict of extends that corresponds to a verdict of assignable
AsExtends(v) ==
    CASE v = SomeTrue -> Yes(<<>>)
      [] v = SomeFalse -> No
      [] v = NoneBool -> Unknown
      [] v = PANIC -> ExtPanic

\* C27: extends agrees with assignable when no inference is involved: for
\* every pair of Types that hold no Generic, self.extends(other) is Yes with
\* an empty binding list exactly when self.assignable(other) is Yes, and No
\* exactly when assignable is No, also when self or other is a Union.
C27_ExtendsAgreesWithAssignable ==
    Returned("extends") /\ ~ContainsGeneric(self) /\ ~ContainsGeneric(other)
    => /\ res.ret = Yes(<<>>) <=> assignable(self, other) = SomeTrue
       /\ res.ret = No <=> assignable(self, other) = SomeFalse

RECURSIVE KeptText(_)
\* the text of the pieces without its comments: a string literal and other
\* text are kept as they are, of a comment only the newline that ends a
\* line comment is kept
KeptText(pieces) ==
    IF pieces = <<>> THEN <<>>
    ELSE (IF Head(pieces) \in CommentPieces
          THEN (IF Head(pieces)[Len(Head(pieces))] = Newline
                THEN <<Newline>> ELSE <<>>)
          ELSE Head(pieces))
         \o KeptText(Tail(pieces))

\* C29: strip_jsonc_comments removes every // line comment and every
\* (possibly nested) /* */ block comment that lies outside a string literal
\* and leaves every character inside a string literal unchanged, also for
\* strings with an escaped quote, with an escaped backslash directly before
\* the closing quote, and with // or /* inside.  The output ends every line,
\* the last one too, with a newline.
C29_StripsComments ==
    Returned("strip_jsonc_comments") /\ other = FALSE
    => res.ret = Append(KeptText(types), Newline)

\* C30: cron schedule validation: parse_schedule returns an error when both
\* or neither of `every` and `schedule` are set; with only `schedule` it
\* returns Cron; with only `every` it returns Every(n) only if the duration
\* is an exact multiple of 60 seconds and at most 24 hours, so every accepted
\* Every(n) has 1 <= n <= 1440 and n minutes is the configured duration
\* exactly.
C30_ScheduleValidation ==
    Returned("parse_schedule")
    => /\ (self = <<>>) = (other = <<>>) => res.ret.k = "Err"
       /\ self = <<>> /\ other # <<>> => res.ret = Cron(other[1])
       /\ res.ret.k = "Every"
          => /\ self # <<>> /\ other = <<>>
             /\ 1 <= res.ret.n /\ res.ret.n <= 1440
             /\ self[1] = Duration(60 * res.ret.n, 0)

====
